---------------------------- MODULE Spec2Model ----------------------------
(***************************************************************************)
(* Narrow-band level-set engines of bitpit                                 *)
(* (external/BitP_Geom/src/levelset/LevelSetMesh.cpp):                     *)
(*   LevelSetCartesian  compute / update / updateEikonal                   *)
(*   LevelSetOctree     compute / update / computeSizeNarrowBand /         *)
(*                      updateSizeNarrowBand / computeRSearchFromLevel     *)
(*                                                                         *)
(* Lengths are integers; the finest admissible octree cell spans 4 units.   *)
(* Centroids are kept doubled (c2 = 2*centroid) and radii as R4 = 4*R^2,   *)
(* so that "centroid within R of the surface" is an exact integer test and *)
(* sqrt(11)/2 never has to be rounded: R = size*sqrt(11)/2 <=> R4 =        *)
(* 11*size^2.                                                              *)
(***************************************************************************)
EXTENDS Integers, Sequences, FiniteSets, TLC

VARIABLES
    surf,       \* the visitor (LSObject): the points of the embedded surface
    cmesh,      \* LevelSetCartesian::m_cmesh (VolCartesian: dim, org, h, nc)
    cRSearch,   \* LevelSetCartesian::RSearch  [set, v]: v is the plain radius
    cinfo,      \* LevelSetCartesian::info: linear ids of the cells holding a record
    cstate,     \* lifecycle of the Cartesian engine instance
    clast,      \* last call made on the Cartesian engine, with what the visitor was handed
    dim,        \* VolOctree::getDimension of the octree patch (2 or 3)
    cells,      \* the octree patch: id -> [level, org] of every live cell
    adapts,     \* number of adaptation batches the kernel has produced
    mapper,     \* the adaptation batch not yet handed to update (<< >>: none)
    RSearch,    \* LevelSetOctree::RSearch [set, v]: v is R4 = 4*radius^2
    info,       \* LevelSetOctree::info: ids of the cells holding an in-band record
    ostate,     \* lifecycle of the octree engine instance
    olast,      \* last call made on the octree engine and what it computed
    lsinfo,     \* LevelSetCartesian::info as updateEikonal reads it: id -> LSInfo [value, active]
    ecall,      \* the arguments of the updateEikonal call: [s, g, I]
    eres,       \* how that call ended: nothing yet, a value, NaN, or a raised error
    sstatic,    \* SystemSolver's static members: m_nInstances, m_optionsEditable, m_options
    solver,     \* one SystemSolver object: alive, m_A, m_rhs, m_solution, m_KSP, m_assembled, ...
    petsc,      \* the PETSc library: initialized, the arguments it got, its live objects
    slast       \* last call made on the SystemSolver: op, how it ended, the state before

cvars == <<cmesh, cRSearch, cinfo, cstate, clast>>
ovars == <<dim, cells, adapts, mapper, RSearch, info, ostate, olast>>
evars == <<lsinfo, ecall, eres>>
svars == <<sstatic, solver, petsc, slast>>

-----------------------------------------------------------------------------
(* Bounds of the model *)

MaxSpacing == 3         \* Cartesian spacings range over 1..MaxSpacing
MaxIndet == 2           \* indeterminate (never assigned) radii range over -1..MaxIndet
MaxDepth == 3           \* deepest octree level of the patch
MaxAdapt == 1           \* adaptation batches per run
MaxRecords == 2         \* cell records per adaptation batch
MaxCells == 22          \* cells of the octree patch
MaxOptions == 5         \* entries of SystemSolver::m_options
MaxObjects == 2         \* PETSc matrices alive at once

-----------------------------------------------------------------------------
(* Arithmetic helpers *)

Max(a, b) == IF a >= b THEN a ELSE b
Min(a, b) == IF a <= b THEN a ELSE b
Sq(x) == x * x

RECURSIVE Pow2(_)
Pow2(n) == IF n <= 0 THEN 1 ELSE 2 * Pow2(n - 1)

SetMin(S) == CHOOSE x \in S : \A y \in S : x <= y
SetMax(S) == CHOOSE x \in S : \A y \in S : x >= y

-----------------------------------------------------------------------------
(* The visitor's geometry: a surface is a finite set of points, each given  *)
(* by its doubled coordinates <<2x, 2y, 2z>> (so half units are available). *)

\* LSObject::getBoundingBox: the axis-aligned box around the surface (doubled).
SurfBB0(S, dm) == [d \in 1..3 |-> IF d <= dm THEN SetMin({p[d] : p \in S}) ELSE 0]
SurfBB1(S, dm) == [d \in 1..3 |-> IF d <= dm THEN SetMax({p[d] : p \in S}) ELSE 0]

\* 4 * (squared distance) between two points given by their doubled coordinates.
DistSq4(p, c2, dm) ==
    LET f[d \in 0..dm] == IF d = 0 THEN 0 ELSE f[d - 1] + Sq(p[d] - c2[d])
    IN  f[dm]

\* The centroid c2 lies within the radius R (given as R4 = 4*R^2) of the surface S.
WithinSurface(S, c2, R4, dm) == \E p \in S : DistSq4(p, c2, dm) <= R4

-----------------------------------------------------------------------------
(* VolCartesian: a uniform grid [dim, org, h, nc]; cell (i,j,k) is 0-based. *)

CartCellIdx(m) ==
    {ijk \in (0..(m.nc[1] - 1)) \X (0..(m.nc[2] - 1)) \X (0..(m.nc[3] - 1)) : TRUE}

getCellLinearId(m, i, j, k) == i + m.nc[1] * j + m.nc[1] * m.nc[2] * k

getSpacing(m, d) == m.h[d + 1]          \* d is 0-based as in the source

CartCentroid2(m, ijk) ==
    [d \in 1..3 |-> IF d <= m.dim THEN 2 * m.org[d] + (2 * ijk[d] + 1) * m.h[d] ELSE 0]

-----------------------------------------------------------------------------
(* LevelSetCartesian *)

\* the loop "for d in 0..dimension-1: r = max(r, getSpacing(d))" started from r
RECURSIVE MaxSpacingLoop(_, _, _)
MaxSpacingLoop(m, d, r) ==
    IF d < m.dim THEN MaxSpacingLoop(m, d + 1, Max(r, getSpacing(m, d))) ELSE r

\* the loop started at the second axis
CartSizeMutant(m) == IF m.dim > 1 THEN MaxSpacingLoop(m, 1, -1) ELSE -1

\* LevelSetCartesian::computeSizeNarrowBand: RSearch = -1, then the loop.
Cartesian_computeSizeNarrowBand(m) == MaxSpacingLoop(m, 0, -1)

\* LevelSetCartesian::updateSizeNarrowBand: the same loop on a local, the mapper unused.
Cartesian_updateSizeNarrowBand(m, mp) == MaxSpacingLoop(m, 0, -1)

\* The visitor on a Cartesian engine: a record for every cell whose centroid lies
\* within the radius R of the surface (computeLSInNarrowBand / updateLSInNarrowBand).
CartBand(m, S, R) ==
    IF R < 0 THEN {}
    ELSE {getCellLinearId(m, ijk[1], ijk[2], ijk[3]) : ijk \in
            {c \in CartCellIdx(m) : WithinSurface(S, CartCentroid2(m, c), 4 * Sq(R), m.dim)}}

\* Adaptation batches handed to LevelSetCartesian::update (their content is unused).
NoRecords == << >>

CartMappers == {NoRecords,
                <<[entity |-> "CELL", previous |-> <<0>>, current |-> <<0, 1>>]>>}

\* clast before any call
NoCartCall ==
    [op |-> "none", before |-> "Uninitialized", handed |-> 0,
     preRS |-> [set |-> FALSE, v |-> 0], seen |-> [set |-> FALSE, v |-> 0]]

\* LevelSetCartesian::compute
CartCompute ==
    LET r == Cartesian_computeSizeNarrowBand(cmesh)
    IN  /\ cRSearch' = [set |-> TRUE, v |-> r]
        /\ cinfo' = CartBand(cmesh, surf, r)
        /\ cstate' = "Computed"
        /\ clast' = [op |-> "compute", before |-> cstate, handed |-> r,
                     preRS |-> cRSearch, seen |-> [set |-> TRUE, v |-> r]]
        /\ UNCHANGED <<surf, cmesh>>

\* the statements of LevelSetCartesian::update after newRSearch is known: the
\* visitor is called with newRSearch while the member is rs (seen), then
\* RSearch = newRSearch (after)
Cartesian_update(rs, newRSearch) ==
    [seen |-> rs, handed |-> newRSearch, after |-> [set |-> TRUE, v |-> newRSearch]]

\* LevelSetCartesian::update
CartUpdate ==
    \E mp \in CartMappers :
        LET st == Cartesian_update(cRSearch, Cartesian_updateSizeNarrowBand(cmesh, mp))
        IN  /\ cinfo' = CartBand(cmesh, surf, st.handed)
            /\ cRSearch' = st.after
            /\ cstate' = (IF cstate = "Uninitialized" THEN "Uninitialized" ELSE "Updated")
            /\ clast' = [op |-> "update", before |-> cstate, handed |-> st.handed,
                         preRS |-> cRSearch, seen |-> st.seen]
            /\ UNCHANGED <<surf, cmesh>>

-----------------------------------------------------------------------------
(* LevelSetCartesian::updateEikonal.  The quadratic form is kept exact: with *)
(* H the product of the squared spacings, the model carries a*H, b*H, c*H    *)
(* (integers) and the returned root (-b + sqrt(delta))/(2a) as the triple    *)
(* [a, b, disc] with disc = delta*H^2.                                       *)

\* the (i,j,k) of a linear cell id
CellIjk(m, I) == <<I % m.nc[1], (I \div m.nc[1]) % m.nc[2], I \div (m.nc[1] * m.nc[2])>>

\* Cell::getAdjacency(face, 0) on a VolCartesian: the cell across the face (2*d
\* towards lower, 2*d+1 towards higher indices along d), -1 on the border
getAdjacency(m, I, face) ==
    LET d == (face \div 2) + 1
        ijk == CellIjk(m, I)
        n == [ijk EXCEPT ![d] = IF face % 2 = 0 THEN ijk[d] - 1 ELSE ijk[d] + 1]
    IN  IF n[d] < 0 \/ n[d] >= m.nc[d] THEN -1 ELSE getCellLinearId(m, n[1], n[2], n[3])

\* what an access to a record the store does not hold can yield when it returns
GarbageRecords == {[value |-> 5, active |-> a] : a \in {0, 1}}

\* info[J]: the record of J; when the store holds none (J = -1 included) the
\* access is undefined: it raises, or returns and refers to indeterminate content
LookupInfo(store, J) ==
    IF J \in DOMAIN store THEN {[raise |-> FALSE, rec |-> store[J]]}
    ELSE {[raise |-> TRUE, rec |-> [value |-> 0, active |-> 1]]}
             \cup {[raise |-> FALSE, rec |-> r] : r \in GarbageRecords}

\* value = 1.0e+18, the mark of an axis without upwind value (tested by < 1.0e+17)
NoUpwind == [far |-> TRUE, v |-> 0]

\* std::min(s*lsInfo.value, value)
MinUpwind(u, value) == [far |-> FALSE, v |-> IF value.far THEN u ELSE Min(u, value.v)]

\* the body of the loop over d up to the coefficients: lsInfo is the reference
\* bound by "LSInfo &lsInfo = info[J]" for the left neighbour, and both tests,
\* the left and the right one, read it
UpwindValue(m, I, d, s, lsInfo, store) ==
    LET Jl == getAdjacency(m, I, 2 * d)
        Jr == getAdjacency(m, I, 2 * d + 1)
        left == IF Jl >= 0 /\ lsInfo.active = 0
                THEN MinUpwind(s * lsInfo.value, NoUpwind) ELSE NoUpwind
    IN  IF Jr >= 0 /\ lsInfo.active = 0
        THEN MinUpwind(s * lsInfo.value, left) ELSE left

\* H, the product of the squared spacings of the mesh's axes
HScale(m) ==
    LET f[d \in 0..m.dim] == IF d = 0 THEN 1 ELSE f[d - 1] * Sq(getSpacing(m, d - 1))
    IN  f[m.dim]

ZeroForm == [raise |-> FALSE, a |-> 0, b |-> 0, c |-> 0]

\* the loop over the axes: every way it can end, as the coefficients or a raise
RECURSIVE QuadraticForms(_, _, _, _, _, _)
QuadraticForms(m, I, s, store, d, acc) ==
    IF d >= m.dim THEN {acc}
    ELSE UNION {
            IF lk.raise THEN {[acc EXCEPT !.raise = TRUE]}
            ELSE LET up == UpwindValue(m, I, d, s, lk.rec, store)
                     w == HScale(m) \div Sq(getSpacing(m, d))
                 IN  QuadraticForms(m, I, s, store, d + 1,
                        IF up.far THEN acc
                        ELSE [acc EXCEPT !.a = @ + w,
                                         !.b = @ - 2 * up.v * w,
                                         !.c = @ + Sq(up.v) * w])
            : lk \in LookupInfo(store, getAdjacency(m, I, 2 * d)) }

NoResult == [kind |-> "none", a |-> 0, b |-> 0, disc |-> 0]

\* delta = b^2 - 4a(c - g^2); value = -(b - sqrt(delta))/(2a): 0/0 and the root
\* of a negative delta are NaN, and NaN is returned like any other double
SolveQuadraticForm(m, g, q) ==
    LET disc == Sq(q.b) - 4 * q.a * (q.c - Sq(g) * HScale(m))
    IN  IF q.raise THEN [NoResult EXCEPT !.kind = "raise"]
        ELSE IF q.a = 0 \/ disc < 0 THEN [kind |-> "nan", a |-> q.a, b |-> q.b, disc |-> disc]
        ELSE [kind |-> "value", a |-> q.a, b |-> q.b, disc |-> disc]

\* LevelSetCartesian::updateEikonal(s, g, I): the outcomes of one call
updateEikonal(m, store, s, g, I) ==
    {SolveQuadraticForm(m, g, q) : q \in QuadraticForms(m, I, s, store, 0, ZeroForm)}

\* the returned double equals the integer n. The form is kept in exact
\* arithmetic, which is the arithmetic of the doubles as long as every 1.0/h2
\* is a double, that is for spacings that are powers of two (with h = 3 the
\* doubles round: 1.0/9 is not a double and the root of (x - 2)^2/9 = 1 comes
\* out as 5.000000000000001); EikMeshes holds such spacings only
ReturnsValue(res, n) ==
    /\ res.kind = "value"
    /\ 2 * res.a * n + res.b >= 0
    /\ Sq(2 * res.a * n + res.b) = res.disc

\* a call of updateEikonal by the visitor
UpdateEikonal ==
    /\ eres.kind = "none"
    /\ \E out \in updateEikonal(cmesh, lsinfo, ecall.s, ecall.g, ecall.I) : eres' = out
    /\ UNCHANGED <<surf, cmesh, cRSearch, cinfo, cstate, clast, lsinfo, ecall>>

-----------------------------------------------------------------------------
(* SystemSolver (src/LA/system_solvers_large.cpp), serial build.            *)
(* A call works on w = [s, st, px, threw, ev]: the object's members, the    *)
(* static members, the library, the exception leaving the call ("" when it  *)
(* returns) and the library calls it made.                                  *)

NullMat == [ptr |-> FALSE, rows |-> << >>, cols |-> 0]
NullVec == [ptr |-> FALSE, size |-> 0, order |-> << >>]
NullIS == [ptr |-> FALSE, ranks |-> << >>]
NoStatus == [error |-> 0, its |-> 0, convergence |-> "none"]

\* the members as the constructor's initializer list sets them
NewSolver ==
    [alive |-> TRUE, m_A |-> NullMat, m_rhs |-> NullVec, m_solution |-> NullVec,
     m_KSP |-> FALSE, m_assembled |-> FALSE, m_setUp |-> FALSE,
     m_rowPermutation |-> NullIS, m_colPermutation |-> NullIS, m_KSPStatus |-> NoStatus]

NoSolver == [NewSolver EXCEPT !.alive = FALSE]

\* the static members as defined at namespace scope
InitStatic == [m_nInstances |-> 0, m_optionsEditable |-> TRUE, m_options |-> <<"bitpit">>]

InitPetsc == [initialized |-> FALSE, args |-> << >>, mats |-> 0, vecs |-> 0, ksps |-> 0, iss |-> 0]

NoEvents == [matCreated |-> 0, matDestroyed |-> 0, vecDestroyed |-> 0,
             kspCreated |-> 0, kspDestroyed |-> 0, permuted |-> << >>,
             atSolve |-> [rhs |-> << >>, solution |-> << >>],
             filled |-> FALSE, exported |-> << >>]

World == [s |-> solver, st |-> sstatic, px |-> petsc, threw |-> "", ev |-> NoEvents]

\* the rest of a call, skipped once an exception is on its way
Then(w, F(_)) == IF w.threw = "" THEN F(w) ELSE w

\* throw std::runtime_error: the call ends as it stands
Throw(w) == [w EXCEPT !.threw = "runtime_error"]

\* MatDestroy, VecDestroy, KSPDestroy, ISDestroy: nothing on a null handle,
\* else the object goes and the handle is set to null
MatDestroy(w) ==
    IF w.s.m_A.ptr
    THEN [w EXCEPT !.s.m_A = NullMat, !.px.mats = @ - 1, !.ev.matDestroyed = @ + 1]
    ELSE w

VecDestroyRhs(w) ==
    IF w.s.m_rhs.ptr
    THEN [w EXCEPT !.s.m_rhs = NullVec, !.px.vecs = @ - 1, !.ev.vecDestroyed = @ + 1]
    ELSE w

VecDestroySolution(w) ==
    IF w.s.m_solution.ptr
    THEN [w EXCEPT !.s.m_solution = NullVec, !.px.vecs = @ - 1, !.ev.vecDestroyed = @ + 1]
    ELSE w

KSPDestroy(w) ==
    IF w.s.m_KSP
    THEN [w EXCEPT !.s.m_KSP = FALSE, !.px.ksps = @ - 1, !.ev.kspDestroyed = @ + 1]
    ELSE w

\* SystemSolver::isAssembled, SystemSolver::isSetUp
isAssembled(w) == w.s.m_assembled
isSetUp(w) == w.s.m_setUp

\* SystemSolver::addInitOption
addInitOption(w, option) ==
    IF ~w.st.m_optionsEditable THEN Throw(w)
    ELSE [w EXCEPT !.st.m_options = Append(@, option)]

\* SystemSolver::addInitOptions(const std::vector<std::string> &)
addInitOptions(w, options) ==
    IF ~w.st.m_optionsEditable THEN Throw(w)
    ELSE [w EXCEPT !.st.m_options = @ \o options]

\* SystemSolver::addInitOptions(int argc, char **argv): the entries from
\* argv[1] on are kept, none when argc is 0 or 1
addInitOptionsArgv(w, argv) ==
    IF ~w.st.m_optionsEditable THEN Throw(w)
    ELSE [w EXCEPT !.st.m_options = @ \o SubSeq(argv, 2, Len(argv))]

\* SystemSolver::clearInitOptions
clearInitOptions(w) == [w EXCEPT !.st.m_options = << >>]

\* SystemSolver::clear
clear(w) ==
    LET w1 == IF isSetUp(w) THEN [KSPDestroy(w) EXCEPT !.s.m_KSP = FALSE, !.s.m_setUp = FALSE]
              ELSE w
        w2 == IF ~isAssembled(w1)
              THEN [VecDestroySolution(VecDestroyRhs(MatDestroy(w1))) EXCEPT !.s.m_assembled = FALSE]
              ELSE w1
    IN  IF w2.st.m_nInstances = 0 THEN [w2 EXCEPT !.st.m_optionsEditable = TRUE] ELSE w2

\* SystemSolver::resetPermutations
resetPermutations(w) ==
    LET w1 == IF w.s.m_rowPermutation.ptr
              THEN [w EXCEPT !.s.m_rowPermutation = NullIS, !.px.iss = @ - 1] ELSE w
    IN  IF w1.s.m_colPermutation.ptr
        THEN [w1 EXCEPT !.s.m_colPermutation = NullIS, !.px.iss = @ - 1] ELSE w1

\* setPermutations without its test of isAssembled()
SetPermutationsMutant(w, rowRanks, colRanks) ==
    [resetPermutations(w) EXCEPT
        !.s.m_rowPermutation = [ptr |-> TRUE, ranks |-> rowRanks],
        !.s.m_colPermutation = [ptr |-> TRUE, ranks |-> colRanks],
        !.px.iss = @ + 2]

\* SystemSolver::setPermutations: ranks are 0-based, rowRanks[i] kept at i + 1
setPermutations(w, rowRanks, colRanks) ==
    IF isAssembled(w) THEN Throw(w)
    ELSE [resetPermutations(w) EXCEPT
            !.s.m_rowPermutation = [ptr |-> TRUE, ranks |-> rowRanks],
            !.s.m_colPermutation = [ptr |-> TRUE, ranks |-> colRanks],
            !.px.iss = @ + 2]

DebugOptions ==
    <<"-log_view", "-ksp_monitor_true_residual", "-ksp_converged_reason",
      "-ksp_monitor_singular_value">>

\* the four addInitOption calls of the constructor
RECURSIVE AddDebugOptions(_, _)
AddDebugOptions(w, i) ==
    IF i > Len(DebugOptions) THEN w
    ELSE LET w1 == addInitOption(w, DebugOptions[i])
         IN  IF w1.threw = "" THEN AddDebugOptions(w1, i + 1) ELSE w1

\* PetscInitialize with argv[1..] = m_options, when this is the first instance
InitializePetsc(w) ==
    IF w.st.m_nInstances = 0
    THEN [w EXCEPT !.px.initialized = TRUE, !.px.args = w.st.m_options]
    ELSE w

\* SystemSolver::SystemSolver(prefix, debug); an exception leaves no object
SystemSolverCtor(w, debug) ==
    LET w0 == [w EXCEPT !.s = NewSolver]
        w1 == IF debug THEN AddDebugOptions(w0, 1) ELSE w0
        w2 == Then(w1, InitializePetsc)
    IN  IF w2.threw = "" THEN [w2 EXCEPT !.st.m_nInstances = @ + 1]
        ELSE [w2 EXCEPT !.s = NoSolver]

\* SystemSolver::~SystemSolver
SystemSolverDtor(w) ==
    LET w1 == resetPermutations(clear(w))
        w2 == [w1 EXCEPT !.st.m_nInstances = @ - 1]
    IN  [w2 EXCEPT !.px.initialized = IF w2.st.m_nInstances = 0 THEN FALSE ELSE @,
                   !.s = NoSolver]

\* ISInvertPermutation: inv[ranks[j]] = j (0-based values, kept at index + 1)
InvertPermutation(ranks) ==
    [c \in 1..Len(ranks) |-> CHOOSE j \in 0..(Len(ranks) - 1) : ranks[j + 1] = c - 1]

\* SparseMatrix: [assembled, rows, cols], row i (0-based) at i + 1 as
\* [pattern, values], cols the number of columns
getRowPattern(matrix, row) == matrix.rows[row + 1].pattern
getRowValues(matrix, row) == matrix.rows[row + 1].values
getRowCount(matrix) == Len(matrix.rows)
getColCount(matrix) == matrix.cols

\* SystemSolver::matrixInit: the ways it can end. MatCreateSeqAIJ puts an
\* nRows x nCols matrix into m_A, whatever m_A referred to. d_nnz has nCols
\* entries and is written at every row: with more rows than columns the
\* writes run past its end, and the call either goes on or is killed.
matrixInit(w, matrix) ==
    LET nRows == getRowCount(matrix)
        nCols == getColCount(matrix)
        created == [w EXCEPT !.s.m_A = [ptr |-> TRUE, rows |-> [r \in 1..nRows |-> << >>],
                                        cols |-> nCols],
                             !.px.mats = @ + 1, !.ev.matCreated = @ + 1]
    IN  IF nRows > nCols THEN {created, [w EXCEPT !.threw = "SIGSEGV"]} ELSE {created}

\* the row that matrixFill hands to MatSetValues for the row `row` of m_A: the
\* matrix row rowRanks[row], its columns sent through the inverse column
\* permutation; of a column named more than once INSERT_VALUES keeps the value
\* handed last
FilledRow(w, matrix, row) ==
    LET nCols == getColCount(matrix)
        matrixRow == IF w.s.m_rowPermutation.ptr
                     THEN w.s.m_rowPermutation.ranks[row + 1] ELSE row
        pat == getRowPattern(matrix, matrixRow)
        val == getRowValues(matrix, matrixRow)
        inv == InvertPermutation(w.s.m_colPermutation.ranks)
        col(k) == IF w.s.m_colPermutation.ptr /\ pat[k] >= 0 /\ pat[k] <= nCols - 1
                  THEN inv[pat[k] + 1] ELSE pat[k]
    IN  [c \in {col(k) : k \in DOMAIN pat} |->
            val[CHOOSE k \in DOMAIN pat :
                    col(k) = c /\ \A j \in DOMAIN pat : col(j) = c => j <= k]]

\* SystemSolver::matrixFill
matrixFill(w, matrix) ==
    [w EXCEPT !.s.m_A.rows = [r \in 1..getRowCount(matrix) |-> FilledRow(w, matrix, r - 1)]]

\* the entries of a vector of n entries in the caller's order: entry i holds i
CallerOrder(n) == [i \in 1..n |-> i - 1]

\* SystemSolver::vectorsInit: VecCreateSeq into m_solution, of as many
\* entries as m_A has columns, and into m_rhs, of as many as it has rows
vectorsInit(w) ==
    LET nRows == Len(w.s.m_A.rows)
        nColumns == w.s.m_A.cols
    IN  [w EXCEPT !.s.m_solution = [ptr |-> TRUE, size |-> nColumns,
                                    order |-> CallerOrder(nColumns)],
                  !.s.m_rhs = [ptr |-> TRUE, size |-> nRows, order |-> CallerOrder(nRows)],
                  !.px.vecs = @ + 2]

\* SystemSolver::assembly: the ways it can end
assembly(w, matrix) ==
    IF ~matrix.assembled THEN {Throw(w)}
    ELSE {IF w1.threw # "" THEN w1
          ELSE [vectorsInit(matrixFill(w1, matrix)) EXCEPT !.s.m_assembled = TRUE] :
            w1 \in matrixInit(clear(w), matrix)}

\* first loop of matrixUpdate from entry n on: how the checks can end. A row of
\* m_A without elements fails "assert(nCurrentRowElements != 0)" where the build
\* keeps assertions, and the search of the first element where it does not.
RECURSIVE UpdateChecks(_, _, _, _)
UpdateChecks(w, rows, elements, n) ==
    IF n > Len(rows) THEN {""}
    ELSE LET rowPattern == getRowPattern(elements, n - 1)
             currentRowPattern == DOMAIN w.s.m_A.rows[rows[n] + 1]
         IN  IF Len(rowPattern) = 0 THEN UpdateChecks(w, rows, elements, n + 1)
             ELSE IF currentRowPattern = {} THEN {"abort", "runtime_error"}
             ELSE IF \E k \in DOMAIN rowPattern : rowPattern[k] \notin currentRowPattern
                  THEN {"runtime_error"}
             ELSE UpdateChecks(w, rows, elements, n + 1)

\* MatSetValues(m_A, 1, &globalRow, n, cols, values, INSERT_VALUES) on one row
MatSetValues(A, row, pat, val) ==
    [A EXCEPT !.rows[row + 1] =
        [c \in DOMAIN @ \cup {pat[k] : k \in DOMAIN pat} |->
            IF \E k \in DOMAIN pat : pat[k] = c
            THEN val[CHOOSE k \in DOMAIN pat : pat[k] = c /\ \A j \in DOMAIN pat : pat[j] = c => j <= k]
            ELSE @[c]]]

\* second loop of matrixUpdate from entry n on
RECURSIVE UpdateValues(_, _, _, _)
UpdateValues(A, rows, elements, n) ==
    IF n > Len(rows) THEN A
    ELSE UpdateValues(
            IF Len(getRowValues(elements, n - 1)) = 0 THEN A
            ELSE MatSetValues(A, rows[n], getRowPattern(elements, n - 1),
                              getRowValues(elements, n - 1)),
            rows, elements, n + 1)

\* SystemSolver::matrixUpdate: the ways it can end
matrixUpdate(w, rows, elements) ==
    {IF c = "" THEN [w EXCEPT !.s.m_A = UpdateValues(@, rows, elements, 1)]
     ELSE [w EXCEPT !.threw = c] : c \in UpdateChecks(w, rows, elements, 1)}

\* SystemSolver::update
update(w, rows, elements) ==
    IF ~elements.assembled THEN {Throw(w)}
    ELSE IF ~isAssembled(w) THEN {Throw(w)}
    ELSE matrixUpdate(w, rows, elements)

\* SystemSolver::setUp
setUp(w) ==
    IF ~isAssembled(w) THEN Throw(w)
    ELSE [KSPDestroy(w) EXCEPT !.s.m_KSP = TRUE, !.px.ksps = @ + 1, !.ev.kspCreated = @ + 1,
                                !.st.m_optionsEditable = FALSE]

\* VecPermute(x, is, inv): new[i] = x[is[i]], and new[is[i]] = x[i] when inverting
VecPermute(x, ranks, invert) ==
    IF invert THEN [i \in DOMAIN x |-> x[InvertPermutation(ranks)[i] + 1]]
    ELSE [i \in DOMAIN x |-> x[ranks[i] + 1]]

\* vectorsPermute that never inverts
VectorsPermuteMutant(w, invert) ==
    [w EXCEPT
        !.s.m_solution.order = IF w.s.m_colPermutation.ptr
                               THEN VecPermute(@, w.s.m_colPermutation.ranks, FALSE) ELSE @,
        !.s.m_rhs.order = IF w.s.m_rowPermutation.ptr
                          THEN VecPermute(@, w.s.m_rowPermutation.ranks, FALSE) ELSE @,
        !.ev.permuted = @
            \o (IF w.s.m_colPermutation.ptr THEN <<[vec |-> "solution", invert |-> FALSE]>> ELSE << >>)
            \o (IF w.s.m_rowPermutation.ptr THEN <<[vec |-> "rhs", invert |-> FALSE]>> ELSE << >>)]

\* SystemSolver::vectorsPermute
vectorsPermute(w, invert) ==
    [w EXCEPT
        !.s.m_solution.order = IF w.s.m_colPermutation.ptr
                               THEN VecPermute(@, w.s.m_colPermutation.ranks, invert) ELSE @,
        !.s.m_rhs.order = IF w.s.m_rowPermutation.ptr
                          THEN VecPermute(@, w.s.m_rowPermutation.ranks, invert) ELSE @,
        !.ev.permuted = @
            \o (IF w.s.m_colPermutation.ptr THEN <<[vec |-> "solution", invert |-> invert]>> ELSE << >>)
            \o (IF w.s.m_rowPermutation.ptr THEN <<[vec |-> "rhs", invert |-> invert]>> ELSE << >>)]

\* what KSPSolve, KSPGetIterationNumber and KSPGetConvergedReason can report
KSPOutcomes ==
    {[error |-> 0, its |-> 3, convergence |-> "KSP_CONVERGED_RTOL"],
     [error |-> 0, its |-> 5, convergence |-> "KSP_DIVERGED_ITS"],
     [error |-> 1, its |-> 0, convergence |-> "none"]}

\* SystemSolver::solve(), the Krylov solver answering with ksp
solve(w, ksp) ==
    IF ~isAssembled(w) THEN Throw(w)
    ELSE LET w1 == IF ~isSetUp(w) THEN setUp(w) ELSE w
             w2 == vectorsPermute(w1, FALSE)
             w3 == [w2 EXCEPT !.s.m_KSPStatus =
                        IF ksp.error = 0 THEN ksp
                        ELSE [error |-> ksp.error, its |-> -1,
                              convergence |-> "KSP_DIVERGED_BREAKDOWN"],
                              !.ev.atSolve = [rhs |-> w2.s.m_rhs.order,
                                              solution |-> w2.s.m_solution.order]]
         IN  vectorsPermute(w3, TRUE)

\* SystemSolver::vectorsFill: the ways it can end. The sizes and the arrays of
\* m_rhs and m_solution are asked for without a test of the handles: on a null
\* handle nRows and raw_rhs are left as they were, uninitialised, and the loop
\* writes through them, so that the call is killed or goes on. On vectors that
\* exist entry i of each takes the caller's entry i, for every i below the
\* size of the system and with no test of the caller's sizes: a vector of the
\* caller shorter than the system is read past its end, which fills the
\* entries with what lies there, or ends the call where the build checks the
\* index.
vectorsFill(w, rhs, solution) ==
    LET filled == [w EXCEPT !.s.m_rhs.order = CallerOrder(w.s.m_rhs.size),
                            !.s.m_solution.order = CallerOrder(w.s.m_solution.size),
                            !.ev.filled = TRUE]
        killed == [w EXCEPT !.threw = "SIGSEGV"]
    IN  IF ~w.s.m_rhs.ptr \/ ~w.s.m_solution.ptr THEN {killed, w}
        ELSE IF Len(rhs) < w.s.m_rhs.size \/ Len(solution) < w.s.m_solution.size
             THEN {filled, killed}
        ELSE {filled}

\* SystemSolver::vectorsExport: the ways it can end. Entry i of the caller's
\* vector takes entry i of m_solution, for every i below the size of
\* m_solution: a shorter vector of the caller is written past its end
\* (reached once solve() has returned, so on an assembled system)
vectorsExport(w, solution) ==
    LET exported == [w EXCEPT !.ev.exported = w.s.m_solution.order]
    IN  IF Len(solution) < w.s.m_solution.size
        THEN {exported, [exported EXCEPT !.threw = "SIGSEGV"]}
        ELSE {exported}

\* SystemSolver::solve(rhs, solution): the ways it can end
solveVectors(w, rhs, solution, ksp) ==
    UNION {IF w1.threw # "" THEN {w1}
           ELSE LET w2 == solve(w1, ksp)
                IN  IF w2.threw # "" THEN {w2} ELSE vectorsExport(w2, solution) :
              w1 \in vectorsFill(w, rhs, solution)}

\* what the Krylov solver can answer on the matrix A: the preconditioner
\* refuses a matrix that is not square
KSPOutcomesOn(A) ==
    IF A.cols = Len(A.rows) THEN KSPOutcomes ELSE {ksp \in KSPOutcomes : ksp.error # 0}

-----------------------------------------------------------------------------
(* VolOctree: the cells are the leaves of a 2^dim-tree over [0, RootSize]^dim. *)

\* the root cell spans 4 * 2^MaxDepth units, a multiple of 16
RootSize == 4 * Pow2(MaxDepth)

\* PabloUniform::levelToSize for the levels of the tree.
levelToSize(level) == RootSize \div Pow2(level)

\* The sentinel "int level(100)" of the band sizers: no cell contributed a level.
NoLevel == 100

\* levelToSize outside the tree's levels shifts 1 by a negative count
\* (max level 20 - level 100): the result is what the build makes of it, 0 or,
\* with the count taken modulo 32, 2^16 of the 2^20 lattice steps of the root.
UndefSizes == {0, RootSize \div 16}

LevelToSizeOutcomes(level) ==
    IF level \in 0..MaxDepth THEN {levelToSize(level)} ELSE UndefSizes

getCellLevel(id) == cells[id].level

CellSize(c) == levelToSize(c.level)

\* doubled centroid of an octree cell
CellCentroid2(c, dm) ==
    [d \in 1..3 |-> IF d <= dm THEN 2 * c.org[d] + CellSize(c) ELSE 0]

\* the two diagonal corners conn[j0], conn[j1] of a cell
CornerLow(c) == c.org
CornerHigh(c, dm) == [d \in 1..3 |-> IF d <= dm THEN c.org[d] + CellSize(c) ELSE c.org[d]]

\* PabloUniform::getLocalMinSize: the size of the finest cell of the patch
getLocalMinSize(cs) == SetMin({CellSize(cs[id]) : id \in DOMAIN cs})

\* VolumeKernel::getBoundingBox of the patch
OctrBB0 == <<0, 0, 0>>
OctrBB1(dm) == [d \in 1..3 |-> IF d <= dm THEN RootSize ELSE 0]

Twice(P) == [d \in 1..3 |-> 2 * P[d]]

\* CGElem::intersectBoxBox: closed boxes, the intersection returned in C0, C1
intersectBoxBox(A0, A1, B0, B1, dm) ==
    \A d \in 1..dm : B0[d] <= A1[d] /\ B1[d] >= A0[d]
IntersectC0(A0, B0) == [d \in 1..3 |-> Max(A0[d], B0[d])]
IntersectC1(A1, B1) == [d \in 1..3 |-> Min(A1[d], B1[d])]

\* the C cast (int)(a / b) of a double quotient, b > 0: truncation towards zero
IntCast(a, b) == IF a >= 0 THEN a \div b ELSE -((-a) \div b)

\* the auxiliary VolCartesian of computeSizeNarrowBand: the intersection box grown
\* by the finest size and snapped to the lattice of the finest cells
ProxyMesh(cs, S, dm) ==
    LET size == getLocalMinSize(cs)
        \* I0, I1, G0, G1 are doubled coordinates; C0, C1 are lattice coordinates
        I0 == IntersectC0(Twice(OctrBB0), SurfBB0(S, dm))
        I1 == IntersectC1(Twice(OctrBB1(dm)), SurfBB1(S, dm))
        G0 == [d \in 1..3 |-> I0[d] - 2 * size]
        G1 == [d \in 1..3 |-> I1[d] + 2 * size]
        C0 == [d \in 1..3 |-> IF d <= dm
                 THEN OctrBB0[d] + size * IntCast(G0[d] - 2 * OctrBB0[d], 2 * size)
                 ELSE 0]
        C1 == [d \in 1..3 |-> IF d <= dm
                 THEN OctrBB0[d] + size * (IntCast(G1[d] - 2 * OctrBB0[d], 2 * size) + 1)
                 ELSE 0]
    IN  [dim |-> dm, org |-> C0, h |-> <<size, size, size>>,
         nc |-> [d \in 1..3 |-> IF d <= dm THEN (C1[d] - C0[d]) \div size ELSE 1]]

\* VolCartesian::locateClosestVertexCartesian: per axis the nearest vertex index,
\* kept inside the grid; the points asked about lie on the lattice of the grid.
locateClosestVertexCartesian(m, P) ==
    [d \in 1..3 |-> IF d <= m.dim
        THEN Min(m.nc[d], Max(0, (P[d] - m.org[d]) \div m.h[d])) ELSE 0]

\* the three nested loops of computeSizeNarrowBand over the proxy cells of one
\* octree cell: _k in i0[2]..i1[2]-1, _j in i0[1]..i1[1]-1, _i in i0[0]..i1[0]-1
SampledProxyIds(m, i0, i1) ==
    {getCellLinearId(m, i, j, k) : i \in i0[1]..(i1[1] - 1), j \in i0[2]..(i1[2] - 1),
                                   k \in i0[3]..(i1[3] - 1)}

\* the octree cells the sampling flags, given the band of the auxiliary engine
FlaggedCells(cs, m, auxBand, dm) ==
    {id \in DOMAIN cs :
        LET i0 == locateClosestVertexCartesian(m, CornerLow(cs[id]))
            i1 == locateClosestVertexCartesian(m, CornerHigh(cs[id], dm))
        IN  SampledProxyIds(m, i0, i1) \cap auxBand # {}}

\* the finest instead of the coarsest level
CoarsestLevelMutant(cs, ids) == SetMax({cs[id].level : id \in ids} \cup {0})

\* min(level, getCellLevel(id)) over a set of cells, started from level(100)
CoarsestLevel(cs, ids) == SetMin({cs[id].level : id \in ids} \cup {NoLevel})

\* LevelSetOctree::computeRSearchFromLevel, as R4 = 4*R^2 with R = size*sqrt(11)/2,
\* for each size levelToSize can return
RSearchFromSize(size) == 11 * Sq(size)
computeRSearchFromLevel(level) == {RSearchFromSize(s) : s \in LevelToSizeOutcomes(level)}

\* LevelSet::isInNarrowBand on the octree engine: the cell holds an in-band record
isInNarrowBand(id) == id \in info

\* The visitor on the octree engine: a record for every live cell whose centroid
\* lies within the radius (R4) of the surface.
OctreeBand(cs, S, R4, dm) ==
    {id \in DOMAIN cs : WithinSurface(S, CellCentroid2(cs[id], dm), R4, dm)}

\* LevelSetOctree::computeSizeNarrowBand: what it finds, and the values RSearch
\* can hold afterwards (old: the value held before the call)
Octree_computeSizeNarrowBand(cs, S, dm, old) ==
    IF intersectBoxBox(Twice(OctrBB0), Twice(OctrBB1(dm)), SurfBB0(S, dm), SurfBB1(S, dm), dm)
    THEN LET m == ProxyMesh(cs, S, dm)
             auxR == Cartesian_computeSizeNarrowBand(m)
             auxBand == CartBand(m, S, auxR)
             flagged == FlaggedCells(cs, m, auxBand, dm)
             level == CoarsestLevel(cs, flagged)
         IN  [intersect |-> TRUE, flagged |-> flagged, level |-> level,
              radii |-> {[set |-> TRUE, v |-> r] : r \in computeRSearchFromLevel(level)}]
    ELSE [intersect |-> FALSE, flagged |-> {}, level |-> NoLevel, radii |-> {old}]

-----------------------------------------------------------------------------
(* The mesh kernel's adaptation step (VolOctree::update): refinements and  *)
(* coarsenings of the tree, reported as Adaption::Info records.             *)

NChildren(dm) == Pow2(dm)

Bit(j, d) == (j \div Pow2(d - 1)) % 2

\* the children of cell c, in Morton order
ChildCells(c, dm) ==
    [j \in 1..NChildren(dm) |->
        [level |-> c.level + 1,
         org |-> [d \in 1..3 |-> IF d <= dm
                    THEN c.org[d] + Bit(j - 1, d) * levelToSize(c.level + 1) ELSE 0]]]

ParentOrg(c, dm) ==
    [d \in 1..3 |-> IF d <= dm THEN c.org[d] - (c.org[d] % (2 * CellSize(c))) ELSE 0]

ParentCell(c, dm) == [level |-> c.level - 1, org |-> ParentOrg(c, dm)]

\* position of c among the children of its parent, 1-based, Morton order
ChildIndex(c, dm) ==
    LET f[d \in 0..dm] ==
            IF d = 0 THEN 0
            ELSE f[d - 1] + Pow2(d - 1) * ((c.org[d] - ParentOrg(c, dm)[d]) \div CellSize(c))
    IN  f[dm] + 1

Siblings(cs, id, dm) ==
    {o \in DOMAIN cs : /\ cs[o].level = cs[id].level
                       /\ ParentOrg(cs[o], dm) = ParentOrg(cs[id], dm)}

\* one refinement per cell above the deepest level, one coarsening per complete family
RefineOps(cs, dm) ==
    {[kind |-> "refine", prev |-> <<id>>, news |-> ChildCells(cs[id], dm)] :
        id \in {i \in DOMAIN cs : cs[i].level < MaxDepth}}

CoarsenOps(cs, dm) ==
    {[kind |-> "coarsen",
      prev |-> [j \in 1..NChildren(dm) |->
                  CHOOSE o \in Siblings(cs, id, dm) : ChildIndex(cs[o], dm) = j],
      news |-> <<ParentCell(cs[id], dm)>>] :
        id \in {i \in DOMAIN cs : /\ cs[i].level > 0
                                  /\ ChildIndex(cs[i], dm) = 1
                                  /\ Cardinality(Siblings(cs, i, dm)) = NChildren(dm)}}

Range(q) == {q[i] : i \in DOMAIN q}

RECURSIVE NewCount(_, _)
NewCount(b, i) == IF i = 0 THEN 0 ELSE NewCount(b, i - 1) + Len(b[i].news)

\* the batches of one adaptation step: 1..MaxRecords operations on disjoint
\* cells, reported in the order of the first cell each operation deletes
Batches(cs, dm) ==
    LET ops == RefineOps(cs, dm) \cup CoarsenOps(cs, dm)
    IN  {b \in UNION {[1..n -> ops] : n \in 1..MaxRecords} :
            /\ \A i, j \in DOMAIN b : i < j =>
                /\ Range(b[i].prev) \cap Range(b[j].prev) = {}
                /\ SetMin(Range(b[i].prev)) > SetMin(Range(b[j].prev))
            /\ Cardinality(DOMAIN cs) + NewCount(b, Len(b))
                    - Cardinality(UNION {Range(b[i].prev) : i \in DOMAIN b}) <= MaxCells}

\* the first n identifiers from `from` upwards that are not in `used`, ascending
RECURSIVE FirstFree(_, _, _, _)
FirstFree(used, from, n, acc) ==
    IF n = 0 THEN acc
    ELSE IF from \in used THEN FirstFree(used, from + 1, n, acc)
    ELSE FirstFree(used, from + 1, n - 1, Append(acc, from))

\* identifiers of the cells a batch creates: the lowest free ones when the kernel
\* reissues identifiers (those its deletions free included), fresh ones otherwise
NewIds(cs, b, rec) ==
    LET kept == DOMAIN cs \ UNION {Range(b[i].prev) : i \in DOMAIN b}
    IN  IF rec THEN FirstFree(kept, 0, NewCount(b, Len(b)), << >>)
        ELSE FirstFree({}, SetMax(DOMAIN cs) + 1, NewCount(b, Len(b)), << >>)

CurrentOf(b, ids, i) == SubSeq(ids, NewCount(b, i - 1) + 1, NewCount(b, i))

\* the Adaption::Info records of a batch
CellRecords(b, ids) ==
    [i \in DOMAIN b |-> [entity |-> "CELL", previous |-> b[i].prev,
                         current |-> CurrentOf(b, ids, i)]]

\* an interface record of the same step: interface ids are numbered apart from
\* the cell ids and may coincide with them, here with those of cells the step
\* keeps (with those of the first record when it keeps none)
InterfaceRecord(b, ids, cs) ==
    LET kept == DOMAIN cs \ UNION {Range(b[i].prev) : i \in DOMAIN b}
    IN  IF kept = {}
        THEN [entity |-> "INTERFACE", previous |-> b[1].prev, current |-> <<ids[1]>>]
        ELSE [entity |-> "INTERFACE", previous |-> <<SetMin(kept)>>,
              current |-> <<SetMax(kept)>>]

\* the patch after the batch
AdaptedCells(cs, b, ids) ==
    LET kept == DOMAIN cs \ UNION {Range(b[i].prev) : i \in DOMAIN b}
        newOf(id) == CHOOSE c \in UNION {Range(b[i].news) : i \in DOMAIN b} :
                        \E i \in DOMAIN b : \E j \in DOMAIN b[i].news :
                            /\ CurrentOf(b, ids, i)[j] = id
                            /\ b[i].news[j] = c
    IN  [id \in kept \cup Range(ids) |-> IF id \in kept THEN cs[id] ELSE newOf(id)]

-----------------------------------------------------------------------------
(* LevelSetOctree::updateSizeNarrowBand *)

\* every record taken for a cell record
IsCellMutant(r) == TRUE

\* info.entity == bitpit::Adaption::Entity::ENTITY_CELL
IsCell(r) == r.entity = "CELL"

\* the map entry set for every cell record
ParentInBandMutant(r) == IsCell(r)

\* first loop over the mapper: map[i] and the delayed erasures of in-band parents
ParentInBand(r) == IsCell(r) /\ \E i \in DOMAIN r.previous : isInNarrowBand(r.previous[i])

ErasedParents(mp) ==
    UNION {{r.previous[i] : i \in {k \in DOMAIN r.previous : isInNarrowBand(r.previous[k])}} :
            r \in {mp[n] : n \in {k \in DOMAIN mp : IsCell(mp[k])}}}

\* inserts the children from the second one on
RECURSIVE InsertChildrenMutant(_, _, _)
InsertChildrenMutant(mp, i, nb) ==
    IF i > Len(mp) THEN nb
    ELSE InsertChildrenMutant(mp, i + 1,
            IF ParentInBand(mp[i]) THEN nb \cup Range(Tail(mp[i].current)) ELSE nb)

\* second loop over the mapper, from record i on: the children of the records
\* whose map entry is set are inserted
RECURSIVE InsertChildren(_, _, _)
InsertChildren(mp, i, nb) ==
    IF i > Len(mp) THEN nb
    ELSE InsertChildren(mp, i + 1,
            IF ParentInBand(mp[i]) THEN nb \cup Range(mp[i].current) ELSE nb)

\* one loop over the mapper, from record i on, that erases the in-band parents of
\* a record and inserts its children before it goes to the next record
RECURSIVE EraseAndInsert(_, _, _)
EraseAndInsert(mp, i, nb) ==
    IF i > Len(mp) THEN nb
    ELSE EraseAndInsert(mp, i + 1,
            IF ParentInBand(mp[i])
            THEN (nb \ {p \in Range(mp[i].previous) : isInNarrowBand(p)}) \cup Range(mp[i].current)
            ELSE nb)

\* the band set built without the removals being completed first
UpdatedBandSetMutant(mp) == EraseAndInsert(mp, 1, {id \in info : isInNarrowBand(id)})

\* the band set nb the function builds
UpdatedBandSet(mp) ==
    LET snapshot == {id \in info : isInNarrowBand(id)}
        flushed == snapshot \ ErasedParents(mp)
    IN  InsertChildren(mp, 1, flushed)

\* cs: the patch after the batch; the new radii levelToSize allows
Octree_updateSizeNarrowBand(mp, cs) ==
    LET nb == UpdatedBandSet(mp)
        level == CoarsestLevel(cs, nb)
    IN  [nb |-> nb, level |-> level, radii |-> computeRSearchFromLevel(level)]

-----------------------------------------------------------------------------
(* LevelSetOctree: compute, update; the mesh kernel: Adapt *)

\* what reading a never-assigned RSearch can give (as R4): a negative radius, a
\* large one
IndetRadii == {-1, 11 * Sq(RootSize)}

\* the radius the visitor reads from the engine
ReadRSearch(rs) == IF rs.set THEN {rs.v} ELSE IndetRadii

\* olast, the record of the last call: the engine state before it (before,
\* preInfo, preRS, preFlagged, preFlevel), the batch it was given, and what it
\* computed: the box test, the flagged cells and their coarsest level (kept while
\* the store describes the patch they were found on), the set nb, the radius
\* handed to the visitor
OLast(op, found, nb, handed, seen) ==
    [op |-> op, before |-> ostate, preInfo |-> info, preRS |-> RSearch,
     mapper |-> mapper, intersect |-> found.intersect, flagged |-> found.flagged,
     flevel |-> found.level, preFlagged |-> olast.flagged, preFlevel |-> olast.flevel,
     nb |-> nb, handed |-> handed, seen |-> seen]

NoCall(op) ==
    [op |-> op, before |-> "Uninitialized", preInfo |-> {},
     preRS |-> [set |-> FALSE, v |-> 0], mapper |-> << >>, intersect |-> FALSE,
     flagged |-> {}, flevel |-> NoLevel, preFlagged |-> {}, preFlevel |-> NoLevel,
     nb |-> {}, handed |-> 0, seen |-> [set |-> FALSE, v |-> 0]]

\* what an update keeps of the last compute's findings
FoundBefore ==
    IF mapper = << >>
    THEN [intersect |-> olast.intersect, flagged |-> olast.flagged, level |-> olast.flevel]
    ELSE [intersect |-> olast.intersect, flagged |-> {}, level |-> NoLevel]

\* LevelSetOctree::compute: computeSizeNarrowBand, then the visitor fills the
\* store from the engine's RSearch (its indeterminate content when never assigned)
OctCompute ==
    LET found == Octree_computeSizeNarrowBand(cells, surf, dim, RSearch)
    IN  \E rs \in found.radii : \E r \in ReadRSearch(rs) :
            /\ RSearch' = rs
            /\ info' = OctreeBand(cells, surf, r, dim)
            /\ ostate' = "Computed"
            /\ mapper' = << >>
            /\ olast' = OLast("compute", found, {}, r, rs)
            /\ UNCHANGED <<surf, dim, cells, adapts>>

\* LevelSetOctree::update with the visitor called after the assignment of RSearch
OctUpdateOrderMutant(rs, newRSearch) ==
    [seen |-> [set |-> TRUE, v |-> newRSearch], handed |-> newRSearch,
     after |-> [set |-> TRUE, v |-> newRSearch]]

\* the statements of LevelSetOctree::update after newRSearch is known: the
\* visitor is called with newRSearch while the member is rs (seen), then
\* RSearch = newRSearch (after)
Octree_update(rs, newRSearch) ==
    [seen |-> rs, handed |-> newRSearch, after |-> [set |-> TRUE, v |-> newRSearch]]

\* LevelSetOctree::update with the pending batch (the batch of zero records when
\* none is pending): updateSizeNarrowBand, the visitor with the new radius, then
\* RSearch = newRSearch
OctUpdate ==
    LET upd == Octree_updateSizeNarrowBand(mapper, cells)
    IN  \E newRSearch \in upd.radii :
          LET st == Octree_update(RSearch, newRSearch)
          IN  /\ info' = OctreeBand(cells, surf, st.handed, dim)
              /\ RSearch' = st.after
              /\ ostate' = (IF ostate = "Uninitialized" THEN "Uninitialized" ELSE "Updated")
              /\ mapper' = << >>
              /\ olast' = OLast("update", FoundBefore, upd.nb, st.handed, st.seen)
            /\ UNCHANGED <<surf, dim, cells, adapts>>

\* VolOctree::update: one adaptation step of the patch, its records kept for the
\* engine; the store still describes the patch before the step
Adapt ==
    /\ mapper = << >>
    /\ adapts < MaxAdapt
    /\ \E b \in Batches(cells, dim) : \E recycles \in BOOLEAN :
        LET ids == NewIds(cells, b, recycles)
        IN  /\ cells' = AdaptedCells(cells, b, ids)
            /\ mapper' = CellRecords(b, ids) \o <<InterfaceRecord(b, ids, cells)>>
    /\ adapts' = adapts + 1
    /\ olast' = [NoCall("adapt") EXCEPT !.intersect = olast.intersect,
                                        !.flagged = olast.flagged,
                                        !.flevel = olast.flevel]
    /\ UNCHANGED <<surf, dim, RSearch, info, ostate>>

\* the uniform patch of the given level, ids in Morton order from 0
RECURSIVE UniformCells(_, _)
UniformCells(level, dm) ==
    IF level = 0 THEN <<[level |-> 0, org |-> <<0, 0, 0>>]>>
    ELSE LET up == UniformCells(level - 1, dm)
         IN  [n \in 1..(Len(up) * NChildren(dm)) |->
                ChildCells(up[((n - 1) \div NChildren(dm)) + 1], dm)[((n - 1) % NChildren(dm)) + 1]]

UniformPatch(level, dm) ==
    LET q == UniformCells(level, dm) IN [id \in 0..(Len(q) - 1) |-> q[id + 1]]

\* the uniform patch of level 1 after the kernel refined its cell 0
MixedPatch(dm) ==
    LET cs == UniformPatch(1, dm)
        b == <<[kind |-> "refine", prev |-> <<0>>, news |-> ChildCells(cs[0], dm)]>>
    IN  AdaptedCells(cs, b, NewIds(cs, b, TRUE))

\* the patches a run starts from
InitPatches(dm) ==
    IF dm = 3 THEN {UniformPatch(0, dm), MixedPatch(dm)}
    ELSE {UniformPatch(0, dm), UniformPatch(1, dm)}

\* Surfaces offered to the octree engine (doubled coordinates; z only in 3-D).
\* U is the size of a level-2 cell, so 2*U doubled is one such cell.
OctSurfaces(dm) ==
    LET z(v) == IF dm = 3 THEN v ELSE 0
        R2 == 2 * RootSize
        U == RootSize \div 4
    IN  { {<<3 * U, 2 * U, z(2 * U)>>},              \* inside the low corner cell
          {<<4 * U - 2, U, z(U)>>},                  \* next to the face of a level-1 cell
          {<<R2 - 2, R2 - 2, z(R2 - 2)>>},           \* inside, at the high corner
          {<<R2 \div 2, R2 \div 2, z(R2 \div 2)>>},  \* the centre of the patch
          {<<R2 + 5 * U, U, z(U)>>},                 \* outside: the boxes do not meet
          {<<-3 * U, U, z(U)>>, <<U, -3 * U, z(U)>>} } \* boxes meet, surface stays away

\* slast: the call, its arguments, how it ended, the library calls it made, and
\* the state before it
SLast(op, args, w) ==
    [op |-> op, args |-> args, threw |-> w.threw, ev |-> w.ev,
     pre |-> [s |-> solver, st |-> sstatic, px |-> petsc]]

NoSCall == [op |-> "none", args |-> << >>, threw |-> "", ev |-> NoEvents,
            pre |-> [s |-> NoSolver, st |-> InitStatic, px |-> InitPetsc]]

\* a call ended as w: an exception leaves the program with what the call had
\* changed before it
Ended(op, args, w) ==
    /\ solver' = w.s
    /\ sstatic' = w.st
    /\ petsc' = w.px
    /\ slast' = SLast(op, args, w)

\* matrices handed to assembly (2 x 2)
Row(pat, val) == [pattern |-> pat, values |-> val]
MDiag == [assembled |-> TRUE, cols |-> 2, rows |-> <<Row(<<0>>, <<1>>), Row(<<1>>, <<1>>)>>]
MFull == [assembled |-> TRUE, cols |-> 2,
          rows |-> <<Row(<<0, 1>>, <<2, 1>>), Row(<<0, 1>>, <<1, 2>>)>>]
MGap == [assembled |-> TRUE, cols |-> 2, rows |-> <<Row(<< >>, << >>), Row(<<1>>, <<1>>)>>]
MNotAssembled == [assembled |-> FALSE, cols |-> 2,
                  rows |-> <<Row(<<0>>, <<1>>), Row(<<1>>, <<1>>)>>]

\* row 0 names column 0 twice
MDup == [assembled |-> TRUE, cols |-> 2,
         rows |-> <<Row(<<0, 0>>, <<1, 2>>), Row(<<1>>, <<1>>)>>]

\* 3 x 3, 2 x 3 and 3 x 2
MThree == [assembled |-> TRUE, cols |-> 3,
           rows |-> <<Row(<<0>>, <<1>>), Row(<<1>>, <<1>>), Row(<<2>>, <<1>>)>>]
MWide == [assembled |-> TRUE, cols |-> 3, rows |-> <<Row(<<2>>, <<1>>), Row(<<0>>, <<1>>)>>]
MTall == [assembled |-> TRUE, cols |-> 2,
          rows |-> <<Row(<<0>>, <<1>>), Row(<<1>>, <<1>>), Row(<<0>>, <<2>>)>>]

SolverMatrices == {MDiag, MFull, MGap, MDup, MNotAssembled, MThree, MWide, MTall}

\* permutations handed to setPermutations: <<rowRanks, colRanks>>
SolverPermutations ==
    {<<<<1, 0>>, <<0, 1>>>>, <<<<1, 0>>, <<1, 0>>>>, <<<<1, 2, 0>>, <<2, 0, 1>>>>,
     <<<<1, 0>>, <<2, 0, 1>>>>}

\* vectors handed to solve(rhs, solution): <<rhs, solution>>
SolverVectors == {<<<<1, 2>>, <<3, 4>>>>, <<<<1, 2>>, <<3, 4, 5>>>>, <<<<1, 2, 3>>, <<4, 5>>>>,
                  <<<<1, 2, 3>>, <<4, 5, 6>>>>}

\* rows and elements handed to update
ElementRows == {Row(<< >>, << >>), Row(<<0>>, <<5>>), Row(<<0, 1>>, <<5, 7>>)}

UpdateArgs ==
    {[rows |-> r, elements |-> [assembled |-> a, rows |-> e]] :
        r \in {<<0>>, <<1>>, <<1, 0>>}, a \in {TRUE}, e \in {<< >>}} \cup
    UNION {{[rows |-> r, elements |-> [assembled |-> TRUE, rows |-> e]] :
                e \in [1..Len(r) -> ElementRows]} : r \in {<<0>>, <<1>>, <<1, 0>>}} \cup
    {[rows |-> <<0>>, elements |-> [assembled |-> FALSE, rows |-> <<Row(<<0>>, <<5>>)>>]]}

Construct(debug) ==
    /\ ~solver.alive
    /\ Len(sstatic.m_options) + (IF debug THEN Len(DebugOptions) ELSE 0) <= MaxOptions
    /\ Ended("constructor", <<debug>>, SystemSolverCtor(World, debug))

Destruct ==
    /\ solver.alive
    /\ Ended("destructor", << >>, SystemSolverDtor(World))

AddInitOption ==
    /\ Len(sstatic.m_options) < MaxOptions
    /\ Ended("addInitOption", <<"-x">>, addInitOption(World, "-x"))

AddInitOptions ==
    /\ Len(sstatic.m_options) < MaxOptions
    /\ \/ Ended("addInitOptions", <<"-y">>, addInitOptions(World, <<"-y">>))
       \/ \E argv \in {<< >>, <<"prog">>, <<"prog", "-y">>} :
             Ended("addInitOptions", <<Len(argv), argv>>, addInitOptionsArgv(World, argv))

ClearInitOptions == Ended("clearInitOptions", << >>, clearInitOptions(World))

Clear ==
    /\ solver.alive
    /\ Ended("clear", << >>, clear(World))

SetPermutations ==
    /\ solver.alive
    /\ \E pm \in SolverPermutations :
          Ended("setPermutations", pm, setPermutations(World, pm[1], pm[2]))

Assembly(matrices) ==
    /\ solver.alive
    /\ petsc.mats < MaxObjects
    /\ \E matrix \in matrices :
          /\ solver.m_rowPermutation.ptr /\ matrix.assembled
                => Len(solver.m_rowPermutation.ranks) = getRowCount(matrix)
          /\ solver.m_colPermutation.ptr /\ matrix.assembled
                => Len(solver.m_colPermutation.ranks) = getColCount(matrix)
          /\ \E w \in assembly(World, matrix) : Ended("assembly", <<matrix>>, w)

Update ==
    /\ solver.alive
    /\ \E a \in UpdateArgs :
          /\ a.elements.assembled /\ solver.m_assembled => Len(a.elements.rows) = Len(a.rows)
          /\ \E w \in update(World, a.rows, a.elements) : Ended("update", <<a>>, w)

SetUp ==
    /\ solver.alive
    /\ Ended("setUp", << >>, setUp(World))

Solve ==
    /\ solver.alive
    /\ \E ksp \in KSPOutcomesOn(solver.m_A) : Ended("solve", <<ksp>>, solve(World, ksp))

\* solve(rhs, solution) with vectors of the sizes of the system, shorter or
\* longer
SolveVectors ==
    /\ solver.alive
    /\ \E ksp \in KSPOutcomesOn(solver.m_A), v \in SolverVectors :
          /\ \E w \in solveVectors(World, v[1], v[2], ksp) :
                Ended("solve(rhs, solution)", <<ksp, v[1], v[2]>>, w)

SolverIdle ==
    /\ sstatic = InitStatic
    /\ solver = NoSolver
    /\ petsc = InitPetsc
    /\ slast = NoSCall

OctIdle ==
    /\ dim = 3
    /\ cells = UniformPatch(0, 3)
    /\ adapts = 0
    /\ mapper = << >>
    /\ RSearch = [set |-> FALSE, v |-> 0]
    /\ info = {}
    /\ ostate = "Uninitialized"
    /\ olast = NoCall("none")

CartIdle ==
    /\ cmesh = [dim |-> 2, org |-> <<0, 0, 0>>, h |-> <<1, 1, 1>>, nc |-> <<2, 2, 1>>]
    /\ cRSearch = [set |-> FALSE, v |-> 0]
    /\ cinfo = {}
    /\ cstate = "Uninitialized"
    /\ clast = NoCartCall

EikIdle ==
    /\ lsinfo = << >>
    /\ ecall = [s |-> 1, g |-> 1, I |-> 0]
    /\ eres = NoResult

OctInit ==
    /\ dim \in {2, 3}
    /\ cells \in InitPatches(dim)
    /\ surf \in OctSurfaces(dim)
    /\ adapts = 0
    /\ mapper = << >>
    /\ RSearch = [set |-> FALSE, v |-> 0]
    /\ info = {}
    /\ ostate = "Uninitialized"
    /\ olast = NoCall("none")
    /\ CartIdle
    /\ EikIdle
    /\ SolverIdle

OctNext ==
    \/ OctCompute /\ UNCHANGED <<cvars, evars, svars>>
    \/ OctUpdate /\ UNCHANGED <<cvars, evars, svars>>
    \/ Adapt /\ UNCHANGED <<cvars, evars, svars>>

\* Cartesian meshes: 2 cells per axis from the origin, any spacing per axis.
CartMeshes ==
    {[dim |-> dm, org |-> <<0, 0, 0>>, h |-> h,
      nc |-> [d \in 1..3 |-> IF d <= dm THEN 2 ELSE 1]] :
        dm \in {2, 3}, h \in [1..3 -> 1..MaxSpacing]}

\* Surfaces offered to the Cartesian engine.
CartSurfaces == {{<<0, 0, 0>>}, {<<2, 4, 0>>}, {<<15, 15, 15>>}, {<<-19, 0, 0>>, <<3, 4, 0>>}}

CartInit ==
    /\ cmesh \in CartMeshes
    /\ surf \in CartSurfaces
    /\ cRSearch \in {[set |-> FALSE, v |-> g] : g \in -1..MaxIndet}
    /\ cinfo = {}
    /\ cstate = "Uninitialized"
    /\ clast = NoCartCall
    /\ OctIdle
    /\ EikIdle
    /\ SolverIdle

CartNext ==
    \/ CartCompute /\ UNCHANGED <<ovars, evars, svars>>
    \/ CartUpdate /\ UNCHANGED <<ovars, evars, svars>>

\* Eikonal stencils: 3 x 3 cells in the plane, so that a cell may have both,
\* one or none of its neighbours along an axis; the spacings are powers of
\* two, for which the doubles of updateEikonal carry no rounding
EikMeshes ==
    {[dim |-> 2, org |-> <<0, 0, 0>>, h |-> h, nc |-> <<3, 3, 1>>] :
        h \in {<<1, 1, 1>>, <<1, 2, 1>>, <<2, 1, 1>>}}

\* the records a neighbour may hold
EikRecords == {[value |-> v, active |-> a] : v \in {-2, 3}, a \in {0, 1}}

FaceNeighbours(m, I) == {getAdjacency(m, I, f) : f \in 0..(2 * m.dim - 1)} \ {-1}

EikInit ==
    /\ cmesh \in EikMeshes
    /\ surf = {<<0, 0, 0>>}
    /\ cRSearch = [set |-> FALSE, v |-> 0]
    /\ cinfo = {}
    /\ cstate = "Uninitialized"
    /\ clast = NoCartCall
    /\ ecall \in {[s |-> s, g |-> 1, I |-> I] : s \in {-1, 1}, I \in 0..8}
    /\ lsinfo \in UNION {[S -> EikRecords] : S \in SUBSET FaceNeighbours(cmesh, ecall.I)}
    /\ eres = NoResult
    /\ OctIdle
    /\ SolverIdle

EikNext == UpdateEikonal /\ UNCHANGED <<ovars, svars>>

\* the calls made on the SystemSolver class and its one object
SolverInit ==
    /\ surf = {<<0, 0, 0>>}
    /\ SolverIdle
    /\ CartIdle
    /\ OctIdle
    /\ EikIdle

SolverNext ==
    \/ Construct(FALSE) /\ UNCHANGED <<surf, cvars, ovars, evars>>
    \/ Destruct /\ UNCHANGED <<surf, cvars, ovars, evars>>
    \/ Clear /\ UNCHANGED <<surf, cvars, ovars, evars>>
    \/ SetPermutations /\ UNCHANGED <<surf, cvars, ovars, evars>>
    \/ Assembly(SolverMatrices) /\ UNCHANGED <<surf, cvars, ovars, evars>>
    \/ Update /\ UNCHANGED <<surf, cvars, ovars, evars>>
    \/ SetUp /\ UNCHANGED <<surf, cvars, ovars, evars>>
    \/ Solve /\ UNCHANGED <<surf, cvars, ovars, evars>>
    \/ SolveVectors /\ UNCHANGED <<surf, cvars, ovars, evars>>

\* the calls that the initialization options depend on
OptionsNext ==
    \/ \E debug \in BOOLEAN : Construct(debug) /\ UNCHANGED <<surf, cvars, ovars, evars>>
    \/ Destruct /\ UNCHANGED <<surf, cvars, ovars, evars>>
    \/ AddInitOption /\ UNCHANGED <<surf, cvars, ovars, evars>>
    \/ AddInitOptions /\ UNCHANGED <<surf, cvars, ovars, evars>>
    \/ ClearInitOptions /\ UNCHANGED <<surf, cvars, ovars, evars>>
    \/ Assembly({MDiag}) /\ UNCHANGED <<surf, cvars, ovars, evars>>
    \/ SetUp /\ UNCHANGED <<surf, cvars, ovars, evars>>

\* both engines at work on the same surface: a planar patch, the surfaces on
\* its diagonal, one planar and one spatial Cartesian mesh
UpdateSurfaces == {S \in OctSurfaces(2) : \E p \in S : p[1] = p[2]}

UpdateMeshes == {m \in CartMeshes : m.h = <<1, MaxSpacing, 1>>}

UpdateInit ==
    /\ dim = 2
    /\ cells \in InitPatches(dim)
    /\ surf \in UpdateSurfaces
    /\ adapts = 0
    /\ mapper = << >>
    /\ RSearch = [set |-> FALSE, v |-> 0]
    /\ info = {}
    /\ ostate = "Uninitialized"
    /\ olast = NoCall("none")
    /\ cmesh \in UpdateMeshes
    /\ cRSearch = [set |-> FALSE, v |-> -1]
    /\ cinfo = {}
    /\ cstate = "Uninitialized"
    /\ clast = NoCartCall
    /\ EikIdle
    /\ SolverIdle

UpdateNext ==
    \/ OctCompute /\ UNCHANGED <<cvars, evars, svars>>
    \/ OctUpdate /\ UNCHANGED <<cvars, evars, svars>>
    \/ Adapt /\ UNCHANGED <<cvars, evars, svars>>
    \/ CartCompute /\ UNCHANGED <<ovars, evars, svars>>
    \/ CartUpdate /\ UNCHANGED <<ovars, evars, svars>>

vars == <<surf, cvars, ovars, evars, svars>>

SpecUpdate == UpdateInit /\ [][UpdateNext]_vars

SpecSolver == SolverInit /\ [][SolverNext]_vars

SpecOptions == SolverInit /\ [][OptionsNext]_vars

SpecEik == EikInit /\ [][EikNext]_vars

SpecCart == CartInit /\ [][CartNext]_vars

SpecOct == OctInit /\ [][OctNext]_vars

-----------------------------------------------------------------------------
(* C1: after LevelSetCartesian::compute and after LevelSetCartesian::update *)
(* (any adaptation map, the empty one included) RSearch is exactly the      *)
(* largest getSpacing(d), d in 0..dimension-1, whatever the surface and     *)
(* whatever RSearch held before.                                            *)
C1_CartesianRadiusIsMaxSpacing ==
    clast.op \in {"compute", "update"} =>
        /\ cRSearch.set
        /\ \E d \in 0..(cmesh.dim - 1) : cRSearch.v = getSpacing(cmesh, d)
        /\ \A d \in 0..(cmesh.dim - 1) : cRSearch.v >= getSpacing(cmesh, d)

C1_Witness ==
    /\ clast.op = "update"
    /\ cmesh.dim = 3
    /\ getSpacing(cmesh, 0) < getSpacing(cmesh, 2)
    /\ getSpacing(cmesh, 1) < getSpacing(cmesh, 0)
    /\ cRSearch.v = getSpacing(cmesh, 2)

-----------------------------------------------------------------------------
(* Records of a batch *)

CellRecordsOf(mp) == {mp[i] : i \in {k \in DOMAIN mp : IsCell(mp[k])}}
IsRefinement(r) == IsCell(r) /\ Len(r.previous) = 1 /\ Len(r.current) > 1
IsCoarsening(r) == IsCell(r) /\ Len(r.previous) > 1 /\ Len(r.current) = 1

(* C2: when the boxes of patch and surface do not intersect,                *)
(* computeSizeNarrowBand does not assign RSearch, flags no cell, and after  *)
(* compute no cell of the patch is in the narrow band.                      *)
C2_NoIntersectionEmptyBand ==
    (olast.op = "compute" /\ ~olast.intersect) =>
        /\ RSearch = olast.preRS
        /\ olast.flagged = {}
        /\ \A id \in DOMAIN cells : ~isInNarrowBand(id)

(* the part of C2 that computeSizeNarrowBand alone decides *)
C2_SizerLeavesRSearch ==
    (olast.op = "compute" /\ ~olast.intersect) =>
        RSearch = olast.preRS /\ olast.flagged = {}

(* C3: every child of a refined cell that was in the band before the batch  *)
(* is in the set nb built by updateSizeNarrowBand.                          *)
C3_ChildrenOfBandCellInNb ==
    olast.op = "update" =>
        \A r \in CellRecordsOf(olast.mapper) :
            (IsRefinement(r) /\ r.previous[1] \in olast.preInfo) =>
                Range(r.current) \subseteq olast.nb

C3_Witness ==
    /\ olast.op = "update"
    /\ \E r \in CellRecordsOf(olast.mapper) :
        /\ IsRefinement(r)
        /\ r.previous[1] \in olast.preInfo
        /\ r.previous[1] \in Range(r.current)
        /\ Len(r.current) = 8
        /\ Range(r.current) \subseteq olast.nb

(* C4: the cell a coarsening record merges into is in nb when all merged    *)
(* cells were in the band before the batch and is not in nb when none was;  *)
(* a merged cell that was in the band stays in nb only as a reissued id.    *)
C4_CoarseningBandMembership ==
    olast.op = "update" =>
        \A r \in CellRecordsOf(olast.mapper) :
            IsCoarsening(r) =>
                /\ (Range(r.previous) \subseteq olast.preInfo) => r.current[1] \in olast.nb
                /\ (Range(r.previous) \cap olast.preInfo = {}) => r.current[1] \notin olast.nb
                /\ \A p \in Range(r.previous) \cap olast.preInfo :
                      p \in olast.nb =>
                          \E q \in CellRecordsOf(olast.mapper) : p \in Range(q.current)

C4_Witness ==
    /\ olast.op = "update"
    /\ \E r \in CellRecordsOf(olast.mapper) :
        /\ IsCoarsening(r)
        /\ Len(r.previous) = 8
        /\ Range(r.previous) \subseteq olast.preInfo
        /\ r.current[1] \in Range(r.previous)
        /\ r.current[1] \in olast.nb
        /\ Range(r.previous) \cap olast.nb = {r.current[1]}

C4_WitnessNoneInBand ==
    /\ olast.op = "update"
    /\ olast.preInfo # {}
    /\ \E r \in CellRecordsOf(olast.mapper) :
        /\ IsCoarsening(r)
        /\ Range(r.previous) \cap olast.preInfo = {}
        /\ r.current[1] \notin olast.nb

(* C5: an update with a batch of zero records, after compute, leaves the    *)
(* band membership and RSearch as they were (stated for the runs whose      *)
(* compute flagged cells, where RSearch comes from a level of the patch).   *)
C5_EmptyBatchChangesNothing ==
    (/\ olast.op = "update"
     /\ olast.mapper = << >>
     /\ olast.before # "Uninitialized"
     /\ olast.preFlagged # {}) =>
        /\ info = olast.preInfo
        /\ RSearch = olast.preRS

(* C6: with the surface fixed, refining the coarsest flagged cell never     *)
(* makes RSearch larger and coarsening it never makes RSearch smaller,      *)
(* whether the radius is recomputed by update or by compute.                *)
RefinedCoarsestFlagged ==
    /\ olast.preRS.set
    /\ Cardinality(CellRecordsOf(olast.mapper)) = 1
    /\ \E r \in CellRecordsOf(olast.mapper) :
        /\ IsRefinement(r)
        /\ r.previous[1] \in olast.preFlagged
        /\ getCellLevel(r.current[1]) - 1 = olast.preFlevel

CoarsenedCoarsestFlagged ==
    /\ olast.preRS.set
    /\ Cardinality(CellRecordsOf(olast.mapper)) = 1
    /\ \E r \in CellRecordsOf(olast.mapper) :
        /\ IsCoarsening(r)
        /\ Range(r.previous) \cap olast.preFlagged # {}
        /\ getCellLevel(r.current[1]) + 1 = olast.preFlevel

C6_RadiusMonotone ==
    olast.op \in {"update", "compute"} =>
        /\ RefinedCoarsestFlagged => RSearch.v <= olast.preRS.v
        /\ CoarsenedCoarsestFlagged => RSearch.v >= olast.preRS.v

(* C7: when the boxes intersect and cells are flagged, compute leaves       *)
(* RSearch = levelToSize(L)*sqrt(11)/2 (R4 = 11*levelToSize(L)^2) with L    *)
(* the coarsest level among the flagged cells; update hands the visitor the *)
(* same formula with L the coarsest level among the cells of nb.            *)
IsCoarsestOf(id, ids) == id \in ids /\ \A o \in ids : getCellLevel(o) >= getCellLevel(id)

C7_RadiusFromCoarsestLevel ==
    /\ (olast.op = "compute" /\ olast.intersect /\ olast.flagged # {}) =>
          /\ RSearch.set
          /\ \E id \in olast.flagged :
                /\ IsCoarsestOf(id, olast.flagged)
                /\ RSearch.v = 11 * Sq(levelToSize(getCellLevel(id)))
    /\ (olast.op = "update" /\ olast.nb # {}) =>
          /\ RSearch = [set |-> TRUE, v |-> olast.handed]
          /\ \E id \in olast.nb :
                /\ IsCoarsestOf(id, olast.nb)
                /\ olast.handed = 11 * Sq(levelToSize(getCellLevel(id)))

C7_Witness ==
    /\ olast.op = "compute"
    /\ olast.intersect
    /\ \E a, b \in olast.flagged :
          /\ getCellLevel(a) < getCellLevel(b)
          /\ RSearch = [set |-> TRUE, v |-> 11 * Sq(levelToSize(getCellLevel(a)))]

C7_WitnessUpdate ==
    /\ olast.op = "update"
    /\ \E a, b \in olast.nb : getCellLevel(a) < getCellLevel(b)
    /\ olast.mapper # << >>

(* The neighbours of the call's cell that hold a computed value: they exist,  *)
(* the store holds their record, and that record has active = 0.             *)
KnownFaces ==
    {f \in 0..(2 * cmesh.dim - 1) :
        LET J == getAdjacency(cmesh, ecall.I, f)
        IN  J \in DOMAIN lsinfo /\ lsinfo[J].active = 0}

(* every record the call reads exists: the cell has a lower neighbour along  *)
(* each axis and the store holds its record                                  *)
ReadsAreDefined ==
    \A d \in 0..(cmesh.dim - 1) : getAdjacency(cmesh, ecall.I, 2 * d) \in DOMAIN lsinfo

(* C8: with g = 1 and exactly one axis holding a known upwind neighbour, of  *)
(* value v0 at spacing h along that axis, updateEikonal returns v0 + s*h,    *)
(* for s = +1 and for s = -1 (stated for the calls all of whose reads are    *)
(* defined).                                                                 *)
C8_EikonalExactOnOneAxis ==
    (eres.kind # "none" /\ ecall.g = 1 /\ Cardinality(KnownFaces) = 1 /\ ReadsAreDefined) =>
        \A f \in KnownFaces :
            ReturnsValue(eres, lsinfo[getAdjacency(cmesh, ecall.I, f)].value
                                  + ecall.s * getSpacing(cmesh, f \div 2))

(* C9: a call on a cell none of whose axes has a known upwind neighbour      *)
(* fails loudly; it never hands a double back to the caller (stated for the  *)
(* calls all of whose reads are defined).                                    *)
C9_NoUpwindFailsLoudly ==
    (eres.kind # "none" /\ KnownFaces = {} /\ ReadsAreDefined) => eres.kind = "raise"

(* C10: compute is accepted only in the Uninitialized state and update only *)
(* after a compute; otherwise the call is rejected and neither RSearch nor  *)
(* the band changes.                                                        *)
C10_LifecycleEnforced ==
    /\ (olast.op = "update" /\ olast.before = "Uninitialized") =>
          RSearch = olast.preRS /\ info = olast.preInfo
    /\ (olast.op = "compute" /\ olast.before # "Uninitialized") =>
          RSearch = olast.preRS /\ info = olast.preInfo

-----------------------------------------------------------------------------
(* C11: in every state reached by compute followed by any number of updates  *)
(* a non-empty narrow band comes with RSearch > 0 (RSearch being recomputed  *)
(* from the patch by each call).                                             *)
C11_BandHasPositiveRadius ==
    (ostate # "Uninitialized" /\ info # {}) => (RSearch.set /\ RSearch.v > 0)


\* the state is what it was before the last call
SolverUnchangedByCall ==
    /\ solver = slast.pre.s
    /\ sstatic = slast.pre.st
    /\ petsc = slast.pre.px

(* C12: solve(), setUp() and update() called while the system is not        *)
(* assembled, be it never assembled or cleared, throw std::runtime_error    *)
(* and leave the solver state unchanged; update() also throws when the      *)
(* element storage is not assembled, and assembly() throws on a matrix that *)
(* is not assembled without clearing an existing system. Stated for the     *)
(* cleared system: the call that follows a clear() of the system and is one *)
(* of solve, setUp, update throws and changes nothing.                      *)
C12_ClearedSystemThrows ==
    [][(slast.op = "clear" /\ slast'.op \in {"solve", "setUp", "update"})
        => (slast'.threw = "runtime_error" /\ UNCHANGED <<solver, sstatic, petsc>>)]_vars

(* C13: setPermutations called while isAssembled() is true throws           *)
(* std::runtime_error and leaves the row and column permutations untouched; *)
(* called before assembly it replaces any previous permutations with the    *)
(* new ones (the previous index sets are destroyed).                        *)
C13_PermutationsOnlyBeforeAssembly ==
    slast.op = "setPermutations" =>
        IF slast.pre.s.m_assembled
        THEN /\ slast.threw = "runtime_error"
             /\ solver.m_rowPermutation = slast.pre.s.m_rowPermutation
             /\ solver.m_colPermutation = slast.pre.s.m_colPermutation
             /\ petsc.iss = slast.pre.px.iss
        ELSE /\ slast.threw = ""
             /\ solver.m_rowPermutation = [ptr |-> TRUE, ranks |-> slast.args[1]]
             /\ solver.m_colPermutation = [ptr |-> TRUE, ranks |-> slast.args[2]]
             /\ petsc.iss = 2

\* setPermutations was refused on an assembled system that holds permutations
\* other than the ones handed in
C13_Witness ==
    /\ slast.op = "setPermutations"
    /\ slast.pre.s.m_assembled
    /\ slast.pre.s.m_colPermutation.ptr
    /\ slast.pre.s.m_colPermutation.ranks # slast.args[2]
    /\ slast.threw = "runtime_error"


(* C14: every call of addInitOption or addInitOptions made after the solver *)
(* has been initialized (PetscInitialize has been called and not yet        *)
(* finalized) throws std::runtime_error and leaves the option list          *)
(* unchanged, so every accepted option is one PetscInitialize receives.     *)
C14_OptionsFrozenOnceInitialized ==
    (slast.op \in {"addInitOption", "addInitOptions"} /\ slast.pre.px.initialized)
        => (slast.threw = "runtime_error" /\ sstatic.m_options = slast.pre.st.m_options)

(* C15: after setUp() returns on an assembled system isSetUp() is true, and *)
(* a solve() on an assembled system that setUp() or an earlier solve() has  *)
(* given a Krylov solver neither destroys nor creates one.                  *)
C15_SetUpIsRemembered ==
    /\ (slast.op = "setUp" /\ slast.threw = "") => solver.m_setUp
    /\ (slast.op = "solve" /\ slast.threw = "" /\ slast.pre.s.m_KSP)
          => (slast.ev.kspCreated = 0 /\ slast.ev.kspDestroyed = 0)

(* C16: after clear() returns isAssembled() and isSetUp() are false and the *)
(* matrix, rhs and solution are destroyed exactly when an assembly() had    *)
(* created them; repeated assembly() never leaves an earlier matrix alive.  *)
C16_ClearClearsTheSystem ==
    /\ slast.op = "clear" =>
          /\ ~solver.m_assembled /\ ~solver.m_setUp
          /\ ~solver.m_A.ptr /\ ~solver.m_rhs.ptr /\ ~solver.m_solution.ptr
          /\ slast.ev.matDestroyed = (IF slast.pre.s.m_A.ptr THEN 1 ELSE 0)
          /\ slast.ev.vecDestroyed = (IF slast.pre.s.m_rhs.ptr THEN 2 ELSE 0)
    /\ petsc.mats <= 1

\* update(a.rows, a.elements) lists a column that the row of A does not hold
ListsMissingColumn(a, A) ==
    \E n \in DOMAIN a.rows : \E k \in DOMAIN a.elements.rows[n].pattern :
        a.elements.rows[n].pattern[k] \notin DOMAIN A.rows[a.rows[n] + 1]

\* the value update(a.rows, a.elements) gives for column c of row r (1-based r)
IsListed(a, r, c) ==
    \E n \in DOMAIN a.rows : \E k \in DOMAIN a.elements.rows[n].pattern :
        a.rows[n] = r - 1 /\ a.elements.rows[n].pattern[k] = c

ListedValue(a, r, c) ==
    LET n == CHOOSE n \in DOMAIN a.rows :
                a.rows[n] = r - 1 /\ \E k \in DOMAIN a.elements.rows[n].pattern :
                                        a.elements.rows[n].pattern[k] = c
        k == CHOOSE k \in DOMAIN a.elements.rows[n].pattern : a.elements.rows[n].pattern[k] = c
    IN  a.elements.rows[n].values[k]

(* C17: update only changes values, never the pattern: if any element of    *)
(* any listed row refers to a column that is not in the row's current       *)
(* pattern, update throws std::runtime_error and the matrix is what it was; *)
(* otherwise exactly the listed entries are replaced.                       *)
C17_UpdateKeepsPattern ==
    (slast.op = "update" /\ slast.pre.s.m_assembled /\ slast.args[1].elements.assembled) =>
        IF ListsMissingColumn(slast.args[1], slast.pre.s.m_A)
        THEN slast.threw = "runtime_error" /\ solver.m_A = slast.pre.s.m_A
        ELSE /\ slast.threw = ""
             /\ DOMAIN solver.m_A.rows = DOMAIN slast.pre.s.m_A.rows
             /\ \A r \in DOMAIN solver.m_A.rows :
                   /\ DOMAIN solver.m_A.rows[r] = DOMAIN slast.pre.s.m_A.rows[r]
                   /\ \A c \in DOMAIN solver.m_A.rows[r] :
                         solver.m_A.rows[r][c] =
                            IF IsListed(slast.args[1], r, c)
                            THEN ListedValue(slast.args[1], r, c)
                            ELSE slast.pre.s.m_A.rows[r][c]


\* the upwind value of axis d as stated: the minimum of s*value over the face
\* neighbours 2*d and 2*d+1 that exist and hold an active value, each judged
\* by its own record
StatedUpwind(m, I, d, s, store) ==
    LET K == {J \in {getAdjacency(m, I, 2 * d), getAdjacency(m, I, 2 * d + 1)} :
                J >= 0 /\ J \in DOMAIN store /\ store[J].active = 0}
    IN  IF K = {} THEN NoUpwind
        ELSE [far |-> FALSE,
              v |-> CHOOSE u \in {s * store[J].value : J \in K} :
                        \A J \in K : u <= s * store[J].value]

\* the quadratic form over the axes that have a stated upwind value
StatedForm(m, I, s, store) ==
    LET f[d \in 0..m.dim] ==
            IF d = 0 THEN ZeroForm
            ELSE LET up == StatedUpwind(m, I, d - 1, s, store)
                     w == HScale(m) \div Sq(getSpacing(m, d - 1))
                 IN  IF up.far THEN f[d - 1]
                     ELSE [f[d - 1] EXCEPT !.a = @ + w,
                                           !.b = @ - 2 * up.v * w,
                                           !.c = @ + Sq(up.v) * w]
    IN  f[m.dim]

(* C18: for each axis the upwind value is the minimum of s*value over those *)
(* of the two face neighbours that exist and hold an active value, each     *)
(* judged by its own record, and an axis enters the quadratic form iff it   *)
(* has such a neighbour: the call solves the form so built (stated for the  *)
(* calls all of whose reads are defined).                                   *)
C18_UpwindFromOwnRecords ==
    (eres.kind # "none" /\ ReadsAreDefined) =>
        eres = SolveQuadraticForm(cmesh, ecall.g,
                                  StatedForm(cmesh, ecall.I, ecall.s, lsinfo))


(* C19: inside update, of both engines, the visitor is called with the new  *)
(* radius while RSearch still holds the value from before the call, and     *)
(* RSearch is overwritten afterwards; when update has returned, RSearch is  *)
(* exactly the value the visitor was handed and the band is the one of that *)
(* radius.                                                                  *)
C19_UpdateOrdering ==
    /\ olast.op = "update" =>
          /\ olast.seen = olast.preRS
          /\ RSearch = [set |-> TRUE, v |-> olast.handed]
          /\ info = OctreeBand(cells, surf, RSearch.v, dim)
    /\ clast.op = "update" =>
          /\ clast.seen = clast.preRS
          /\ cRSearch = [set |-> TRUE, v |-> clast.handed]
          /\ cinfo = CartBand(cmesh, surf, cRSearch.v)

\* both engines have made an update that changed their RSearch
C19_Witness ==
    /\ olast.op = "update" /\ olast.preRS.set /\ olast.preRS.v # olast.handed
    /\ clast.op = "update" /\ clast.preRS # cRSearch


\* the proxy cells in the lattice range between the vertices i0 and i1, the one
\* layer of a planar proxy grid included
StatedProxyIds(m, i0, i1) ==
    {getCellLinearId(m, i, j, k) :
        i \in i0[1]..(i1[1] - 1), j \in i0[2]..(i1[2] - 1),
        k \in IF m.dim = 3 THEN i0[3]..(i1[3] - 1) ELSE {i0[3]}}

\* the octree cells with at least one such proxy cell in the auxiliary band
StatedFlagged(cs, S, dm) ==
    LET m == ProxyMesh(cs, S, dm)
        auxBand == CartBand(m, S, Cartesian_computeSizeNarrowBand(m))
    IN  {id \in DOMAIN cs :
            StatedProxyIds(m, locateClosestVertexCartesian(m, CornerLow(cs[id])),
                           locateClosestVertexCartesian(m, CornerHigh(cs[id], dm)))
                \cap auxBand # {}}

(* C20: computeSizeNarrowBand flags an octree cell iff at least one proxy    *)
(* cell in the lattice range between the proxy vertices nearest to its two  *)
(* diagonal corners is in the auxiliary band, on 2-D meshes as on 3-D ones, *)
(* and the coarsest level is searched among the cells so flagged.           *)
C20_FlaggedIffProxyInBand ==
    (olast.op = "compute" /\ olast.intersect) =>
        /\ olast.flagged = StatedFlagged(cells, surf, dim)
        /\ olast.flevel = CoarsestLevel(cells, StatedFlagged(cells, surf, dim))


\* a record tagged with the entity kind CELL
TaggedCell(r) == r.entity = "CELL"

\* the batch with every non-CELL record removed
CellsOnly(mp) == SelectSeq(mp, TaggedCell)

\* the identifiers that only non-CELL records of the batch list
OnlyInOtherRecords(mp) ==
    UNION {Range(mp[n].previous) \cup Range(mp[n].current) : n \in {k \in DOMAIN mp : ~TaggedCell(mp[k])}}
    \ UNION {Range(mp[n].previous) \cup Range(mp[n].current) : n \in {k \in DOMAIN mp : TaggedCell(mp[k])}}

(* C21: only CELL records matter: an update builds the band set and the new *)
(* RSearch that updateSizeNarrowBand gives for the batch with every         *)
(* non-CELL record removed, and an identifier that only non-CELL records    *)
(* list is in the band set iff it was in the band before.                   *)
C21_OnlyCellRecordsMatter ==
    [][olast'.op = "update" =>
          LET full == Octree_updateSizeNarrowBand(mapper, cells)
              bare == Octree_updateSizeNarrowBand(CellsOnly(mapper), cells)
          IN  /\ full = bare
              /\ olast'.nb = bare.nb
              /\ RSearch'.v \in bare.radii
              /\ \A id \in OnlyInOtherRecords(mapper) :
                    id \in olast'.nb <=> isInNarrowBand(id)]_vars

\* an update was given a batch whose interface record names an in-band cell
\* that no cell record lists, and another cell as its current one
C21_Witness ==
    /\ olast.op = "update"
    /\ \E n \in DOMAIN olast.mapper :
          /\ ~TaggedCell(olast.mapper[n])
          /\ Range(olast.mapper[n].previous) \cap olast.preInfo
                \cap OnlyInOtherRecords(olast.mapper) # {}
          /\ olast.mapper[n].current # olast.mapper[n].previous
    /\ \E n \in DOMAIN olast.mapper :
          TaggedCell(olast.mapper[n]) /\ Range(olast.mapper[n].previous) \cap olast.preInfo # {}


\* the entries of x moved by the permutation ranks: entry i comes from ranks[i]
Permuted(x, ranks) == [i \in DOMAIN x |-> x[ranks[i] + 1]]

(* C22: in every solve() on an assembled system the permutations are        *)
(* applied to solution and rhs exactly once before KSPSolve and inverted    *)
(* exactly once after it, whatever KSPSolve reports, so both vectors are in *)
(* the caller's order when solve() returns; on an error of KSPSolve the     *)
(* status is its = -1 and KSP_DIVERGED_BREAKDOWN, otherwise what the Krylov *)
(* solver reported.                                                         *)
C22_PermuteOnceAndBack ==
    (slast.op = "solve" /\ slast.pre.s.m_assembled) =>
        LET p == slast.pre.s
            ksp == slast.args[1]
            sol(inv) == IF p.m_colPermutation.ptr
                        THEN <<[vec |-> "solution", invert |-> inv]>> ELSE << >>
            rhs(inv) == IF p.m_rowPermutation.ptr
                        THEN <<[vec |-> "rhs", invert |-> inv]>> ELSE << >>
        IN  /\ slast.threw = ""
            /\ slast.ev.permuted = sol(FALSE) \o rhs(FALSE) \o sol(TRUE) \o rhs(TRUE)
            /\ slast.ev.atSolve.rhs =
                  IF p.m_rowPermutation.ptr
                  THEN Permuted(p.m_rhs.order, p.m_rowPermutation.ranks) ELSE p.m_rhs.order
            /\ slast.ev.atSolve.solution =
                  IF p.m_colPermutation.ptr
                  THEN Permuted(p.m_solution.order, p.m_colPermutation.ranks)
                  ELSE p.m_solution.order
            /\ solver.m_rhs.order = CallerOrder(p.m_rhs.size)
            /\ solver.m_solution.order = CallerOrder(p.m_solution.size)
            /\ solver.m_KSPStatus.error = ksp.error
            /\ IF ksp.error # 0
               THEN /\ solver.m_KSPStatus.its = -1
                    /\ solver.m_KSPStatus.convergence = "KSP_DIVERGED_BREAKDOWN"
               ELSE /\ solver.m_KSPStatus.its = ksp.its
                    /\ solver.m_KSPStatus.convergence = ksp.convergence

\* a solve whose Krylov solver failed, on a system of three rows assembled under
\* cyclic permutations
C22_Witness ==
    /\ slast.op = "solve"
    /\ slast.pre.s.m_assembled
    /\ slast.pre.s.m_rowPermutation.ranks = <<1, 2, 0>>
    /\ slast.ev.atSolve.rhs = <<1, 2, 0>>
    /\ slast.ev.atSolve.solution = <<2, 0, 1>>
    /\ slast.args[1].error # 0
    /\ solver.m_rhs.order = <<0, 1, 2>>


\* the orders the records of a batch of n records can come in
RecordOrders(n) == {f \in [1..n -> 1..n] : \A i, j \in 1..n : f[i] = f[j] => i = j}

\* the CELL records of batch mp that have a parent in the band
WithBandParent(mp) ==
    {r \in CellRecordsOf(mp) : \E p \in Range(r.previous) : isInNarrowBand(p)}

\* the identifiers the kernel reissued within batch mp: a child id of one CELL
\* record that is an in-band parent id of a CELL record
RecycledBandIds(mp) ==
    UNION {Range(r.current) : r \in CellRecordsOf(mp)}
        \cap UNION {{p \in Range(r.previous) : isInNarrowBand(p)} : r \in CellRecordsOf(mp)}

\* the ids that the insertions of the records from i on, child by child, meet
\* already present in nb
RECURSIVE InsertedWhilePresent(_, _, _)
InsertedWhilePresent(mp, i, nb) ==
    IF i > Len(mp) THEN {}
    ELSE IF TaggedCell(mp[i]) /\ mp[i] \in WithBandParent(mp)
    THEN {mp[i].current[k] : k \in {j \in DOMAIN mp[i].current :
                mp[i].current[j] \in nb
                    \/ \E l \in 1..(j - 1) : mp[i].current[l] = mp[i].current[j]}}
            \cup InsertedWhilePresent(mp, i + 1, nb \cup Range(mp[i].current))
    ELSE InsertedWhilePresent(mp, i + 1, nb)

(* C23: all removals of in-band parent ids are completed before any child   *)
(* id is inserted: an id the kernel reissued within the batch is in the     *)
(* final band set exactly when it is a child of a record that had an        *)
(* in-band parent, the band set is the same for every order of the records, *)
(* and no id is inserted while already present.                             *)
C23_RemovalsBeforeInsertions ==
    [][olast'.op = "update" =>
          /\ \A id \in RecycledBandIds(mapper) :
                id \in olast'.nb <=> \E r \in WithBandParent(mapper) : id \in Range(r.current)
          /\ \A f \in RecordOrders(Len(mapper)) :
                UpdatedBandSet([i \in 1..Len(mapper) |-> mapper[f[i]]]) = olast'.nb
          /\ InsertedWhilePresent(mapper, 1, info \ ErasedParents(mapper)) = {}]_vars

\* an update whose batch gave the id of an in-band parent of one record to a
\* child of another record that had an in-band parent, and the id is in nb
C23_Witness ==
    /\ olast.op = "update"
    /\ \E r, q \in CellRecordsOf(olast.mapper) :
          /\ r # q
          /\ Range(r.previous) \cap olast.preInfo # {}
          /\ Range(q.previous) \cap olast.preInfo # {}
          /\ Range(r.current) \cap Range(q.previous) \cap olast.preInfo # {}
          /\ Range(r.current) \cap Range(q.previous) \cap olast.preInfo \subseteq olast.nb

\* an update whose batch gave the id of an in-band parent to a child of a
\* record without in-band parent, and the id is not in nb
C23_WitnessDropped ==
    /\ olast.op = "update"
    /\ \E r, q \in CellRecordsOf(olast.mapper) :
          /\ Range(r.previous) \cap olast.preInfo = {}
          /\ Range(r.current) \cap Range(q.previous) \cap olast.preInfo # {}
          /\ Range(r.current) \cap Range(q.previous) \cap olast.preInfo \cap olast.nb = {}

=============================================================================
